---- MODULE Spec2Model ----
(***************************************************************************)
(* Model of the Douban review crawler:                                     *)
(*   - parseDoubanPage       (services/doubanCrawler.ts), the extractor    *)
(*   - fetchViaLocalServer   (services/doubanCrawler.ts), the page fetcher *)
(*   - crawlUserReviews      (services/doubanCrawler.ts), the orchestrator *)
(*   - app.get('/fetch')     (the companion proxy, proxy.js)               *)
(*                                                                         *)
(* Text is a sequence of one-character strings, " " being whitespace.      *)
(* A string that is only searched for phrases (an HTML body, an error      *)
(* text) is the set of the searched phrases it contains.                   *)
(***************************************************************************)
EXTENDS Integers, Sequences, FiniteSets, TLC

VARIABLES
    pc,          \* position of the crawlUserReviews invocation
    userCookie,  \* the userCookie argument ("" = anonymous)
    page,        \* loop variable `page`
    start,       \* loop variable `start`
    allReviews,  \* the accumulator `allReviews`
    log,         \* what onLog has been called with, in order
    requested,   \* the `start` offset of every fetch issued, in order
    waits,       \* number of pacing sleeps awaited, with their delay
    served,      \* what the network answered to each fetch, in order
    delivered,   \* what fetchViaLocalServer delivered for each fetch
    extracted,   \* the markup of every parseDoubanPage call of the crawl
    result,      \* how crawlUserReviews ended
    html,        \* extractor run: the markup handed to parseDoubanPage
    data,        \* extractor run: the array parseDoubanPage returned
    xpc,         \* extractor run: "input" before the call, "parsed" after
    crawls       \* several invocations: the locals of each, by invocation

vars == <<pc, userCookie, page, start, allReviews, log, requested, waits,
          served, delivered, extracted, result, html, data, xpc, crawls>>

crawlVars == <<pc, userCookie, page, start, allReviews, log, requested, waits,
               served, delivered, extracted, result>>

extractVars == <<html, data, xpc>>

-----------------------------------------------------------------------------
(* Bounds of the model *)

MaxBlocks == 2   \* elements matched against the item selectors on one page
MaxEls == 2      \* descendant elements of an item that carry a class list
MaxTagLen == 3   \* characters of the text of a tag block

-----------------------------------------------------------------------------
(* Text *)

RECURSIVE TrimLeft(_)
TrimLeft(t) ==
    IF t = <<>> THEN <<>>
    ELSE IF Head(t) = " " THEN TrimLeft(Tail(t)) ELSE t

RECURSIVE TrimRight(_)
TrimRight(t) ==
    IF t = <<>> THEN <<>>
    ELSE IF t[Len(t)] = " " THEN TrimRight(SubSeq(t, 1, Len(t) - 1)) ELSE t

\* String.prototype.trim
Trim(t) == TrimRight(TrimLeft(t))

\* The literal label of the tag block: the word written "TAG:" here (two
\* Chinese characters and a colon in the source) followed by one space.
TagLabel == <<"TAG:", " ">>

\* tagEl.textContent.replace(label, ''): the first occurrence is removed,
\* wherever it is.
RECURSIVE ReplaceLabel(_)
ReplaceLabel(t) ==
    IF Len(t) < Len(TagLabel) THEN t
    ELSE IF SubSeq(t, 1, Len(TagLabel)) = TagLabel
         THEN SubSeq(t, Len(TagLabel) + 1, Len(t))
         ELSE <<Head(t)>> \o ReplaceLabel(Tail(t))

\* tagText.split(/\s+/): cur is the piece being read.
RECURSIVE SplitFrom(_, _)
SplitFrom(t, cur) ==
    IF t = <<>> THEN <<cur>>
    ELSE IF Head(t) = " "
         THEN IF Len(t) > 1 /\ t[2] = " "
              THEN SplitFrom(Tail(t), cur)
              ELSE <<cur>> \o SplitFrom(Tail(t), <<>>)
         ELSE SplitFrom(Tail(t), Append(cur, Head(t)))

SplitWs(t) == SplitFrom(t, <<>>)

\* An element that may be missing: querySelector returns it or null.
NoEl == [present |-> FALSE, text |-> <<>>]
El(t) == [present |-> TRUE, text |-> t]

\* a || b on two querySelector results
OrEl(a, b) == IF a.present THEN a ELSE b

\* el?.textContent?.trim() || ""
TextOf(el) == IF el.present THEN Trim(el.text) ELSE <<>>

-----------------------------------------------------------------------------
(* Class lists.  A class token is spelled pre + stem + digit + tail:       *)
(* [pre |-> TRUE, stem |-> "rating", digit |-> 5, tail |-> "-t"] is        *)
(* "xrating5-t"; digit -1 is no digit.                                     *)

NoDigit == -1

Tok(p, s, d, t) == [pre |-> p, stem |-> s, digit |-> d, tail |-> t]

TFoo == Tok(FALSE, "foo", NoDigit, "")        \* "foo"
TR4t == Tok(FALSE, "rating", 4, "-t")         \* "rating4-t"
TR9t == Tok(FALSE, "rating", 9, "-t")         \* "rating9-t"
TR3s == Tok(FALSE, "rating", 3, "-s")         \* "rating3-s"
TRstar == Tok(FALSE, "rating", NoDigit, "-t") \* "rating-t"
TXr5t == Tok(TRUE, "rating", 5, "-t")         \* "xrating5-t"

\* The class attribute begins with "rating": [class^="rating"].
ClassStartsWithRating(cls) ==
    cls # <<>> /\ ~cls[1].pre /\ cls[1].stem = "rating"

\* The token contains a match of /rating(\d)-t/ (the pattern is unanchored).
TokRegexMatch(t) == t.stem = "rating" /\ t.digit # NoDigit /\ t.tail = "-t"

\* className.match(/rating(\d)-t/): the leftmost match in the class string,
\* as <<digit>>, or <<>> for null.
RECURSIVE ClassMatch(_)
ClassMatch(cls) ==
    IF cls = <<>> THEN <<>>
    ELSE IF TokRegexMatch(Head(cls)) THEN <<Head(cls).digit>>
    ELSE ClassMatch(Tail(cls))

\* item.querySelector('[class^="rating"]'): the first descendant, in document
\* order, whose class attribute begins with "rating"; 0 when there is none.
RECURSIVE FirstRatingEl(_, _)
FirstRatingEl(els, i) ==
    IF i > Len(els) THEN 0
    ELSE IF ClassStartsWithRating(els[i].cls) THEN i
    ELSE FirstRatingEl(els, i + 1)

-----------------------------------------------------------------------------
(* The extractor: parseDoubanPage.                                         *)
(*                                                                         *)
(* A block is one element of the page, with what the selectors of the      *)
(* extractor find in it:                                                   *)
(*   cls       which of the classes "item", "subject-item" it carries      *)
(*   titleA    the first ".title a" descendant                             *)
(*   infoA     the first ".info h2 a" descendant                           *)
(*   els       the class lists of its descendants, in document order;      *)
(*             svg says the element is in the SVG namespace, where         *)
(*             className is an SVGAnimatedString and not a string          *)
(*   comment   the first ".comment" descendant                             *)
(*   shortNote the first ".short-note" descendant                          *)
(*   date      the first ".date" descendant                                *)
(*   tags      the first ".tags" descendant                                *)

Block(c, ta, ia, es, co, sn, da, tg) ==
    [cls |-> c, titleA |-> ta, infoA |-> ia, els |-> es,
     comment |-> co, shortNote |-> sn, date |-> da, tags |-> tg]

ClsEl(isSvg, c) == [svg |-> isSvg, cls |-> c]

\* doc.querySelectorAll(".item, .subject-item") matches the element
IsItemBlock(b) == b.cls \cap {"item", "subject-item"} # {}

\* const titleEl = ...; const title = titleEl?.textContent?.trim() || ""
ResolveTitle(b) == TextOf(OrEl(b.titleA, b.infoA))

\* ratingSpan.className.match(...) throws a TypeError when className is not
\* a string
RatingThrows(b) ==
    LET r == FirstRatingEl(b.els, 1) IN r # 0 /\ b.els[r].svg

\* let rating = 0; ... if (match) rating = parseInt(match[1])
ResolveRating(b) ==
    LET r == FirstRatingEl(b.els, 1) IN
    IF r = 0 THEN 0
    ELSE LET m == ClassMatch(b.els[r].cls) IN
         IF m = <<>> THEN 0 ELSE m[1]

ResolveComment(b) == TextOf(OrEl(b.comment, b.shortNote))

ResolveDate(b) == TextOf(b.date)

\* Mutant of ResolveTags: the split is pushed without the `if (tagText)`.
ResolveTagsNoCheck(b) ==
    IF b.tags.present /\ b.tags.text # <<>>
    THEN SplitWs(Trim(ReplaceLabel(b.tags.text)))
    ELSE <<>>

\* const tags = []; if (tagEl && tagEl.textContent) { ... }
ResolveTags(b) ==
    IF b.tags.present /\ b.tags.text # <<>>
    THEN LET tagText == Trim(ReplaceLabel(b.tags.text)) IN
         IF tagText # <<>> THEN SplitWs(tagText) ELSE <<>>
    ELSE <<>>

ReviewItem(b, category) ==
    [title |-> ResolveTitle(b), rating |-> ResolveRating(b),
     comment |-> ResolveComment(b), date |-> ResolveDate(b),
     category |-> category, tags |-> ResolveTags(b)]

\* The body of items.forEach: what one item adds to `data`.
ParseItem(b, category) ==
    IF RatingThrows(b) THEN <<>>                      \* catch(e): logged
    ELSE IF ResolveTitle(b) # <<>> THEN <<ReviewItem(b, category)>>
    ELSE <<>>

\* Mutant of SelectItems: one query per shape, the results concatenated.
HasItemClass(b) == "item" \in b.cls
HasSubjectItemClass(b) == "subject-item" \in b.cls
SelectItemsPerShape(blocks) ==
    SelectSeq(blocks, HasItemClass) \o SelectSeq(blocks, HasSubjectItemClass)

\* querySelectorAll(".item, .subject-item"): each matching element once, in
\* document order.
RECURSIVE SelectItems(_)
SelectItems(blocks) ==
    IF blocks = <<>> THEN <<>>
    ELSE IF IsItemBlock(Head(blocks))
         THEN <<Head(blocks)>> \o SelectItems(Tail(blocks))
         ELSE SelectItems(Tail(blocks))

\* Mutant of ForEachItem: one try around the whole loop, so that a throwing
\* item ends the extraction of the page.
RECURSIVE ForEachItemAbort(_, _)
ForEachItemAbort(items, category) ==
    IF items = <<>> THEN <<>>
    ELSE IF RatingThrows(Head(items)) THEN <<>>
    ELSE ParseItem(Head(items), category)
             \o ForEachItemAbort(Tail(items), category)

RECURSIVE ForEachItem(_, _)
ForEachItem(items, category) ==
    IF items = <<>> THEN <<>>
    ELSE ParseItem(Head(items), category) \o ForEachItem(Tail(items), category)

\* A page of markup: the searched phrases it contains and its elements.
Html(phrases, blocks) == [has |-> phrases, blocks |-> blocks]

parseDoubanPage(h, category) == ForEachItem(SelectItems(h.blocks), category)

-----------------------------------------------------------------------------
(* The searched phrases.  The two block-page markers are Chinese in the    *)
(* source: "abnormal request" is the abnormal-request notice and           *)
(* "login douban" is the login wall.                                       *)

PAbnormal == "abnormal request"
PLogin == "login douban"
PFailedToFetch == "Failed to fetch"
PConnRefused == "Connection refused"
PRedirected == "Douban Redirected"
PNodeProxy == "node proxy.js"

\* A text without items: an error page, a proxy message.
TextBody(phrases) == Html(phrases, <<>>)

-----------------------------------------------------------------------------
(* The companion proxy: app.get('/fetch').                                 *)
(*                                                                         *)
(* The origin answers one GET with a response, or cannot be reached.       *)

OriginResponse(status, body, location) ==
    [reached |-> TRUE, status |-> status, body |-> body, location |-> location]

OriginUnreachable ==
    [reached |-> FALSE, status |-> 0, body |-> TextBody({}), location |-> ""]

HttpResponse(status, body) == [status |-> status, body |-> body]

\* validateStatus of the axios call: the statuses axios resolves with
validateStatus(status) == status >= 200 /\ status < 400

\* The handler of GET /fetch.  maxRedirects is 0: axios makes the one origin
\* request and hands its response over, whatever the status.  An error
\* response is passed on with its status and its data ('Proxy Error' for
\* empty data: a text without searched phrases, like the empty one).
ProxyFetch(hasUrl, origin) ==
    IF ~hasUrl THEN HttpResponse(400, TextBody({}))
    ELSE IF origin.reached /\ validateStatus(origin.status)
    THEN IF origin.status = 301 \/ origin.status = 302
         THEN HttpResponse(403, TextBody({PRedirected}))
         ELSE HttpResponse(200, origin.body)              \* res.send(data)
    ELSE \* axios threw: catch (error)
         IF origin.reached /\ (origin.status = 301 \/ origin.status = 302)
         THEN HttpResponse(403, TextBody({PRedirected}))
         ELSE IF origin.reached
              THEN HttpResponse(origin.status, origin.body)
              ELSE HttpResponse(500, TextBody({}))         \* 'Network Error'

-----------------------------------------------------------------------------
(* The page fetcher: fetchViaLocalServer.                                  *)
(*                                                                         *)
(* An Error is its message: which message it is, the status it prints and  *)
(* the searched phrases it contains.                                       *)

Err(kind, status, phrases) == [kind |-> kind, status |-> status, has |-> phrases]

NoErr == Err("none", 0, {})
ErrForbidden == Err("403 Forbidden", 403, {})
ErrTeapot == Err("418 I'm a teapot", 418, {})
ErrStatus(status, errText) == Err("request failed", status, errText.has)
ErrFetchRejected(phrases) == Err("fetch rejected", 0, phrases)
ErrProxyDown == Err("cannot reach local proxy", 0, {PNodeProxy})
ErrAntiCrawl == Err("anti-crawl interception", 0, {})
ErrEmpty == Err("data is empty", 0, {})

\* What the browser's fetch() of /fetch comes to: the proxy answers, or the
\* promise rejects with a message (failMsg: the phrases of that message).
Net(proxyUp, failMsg, origin) ==
    [proxyUp |-> proxyUp, failMsg |-> failMsg, origin |-> origin]

Delivered(html_, err) == [ok |-> err = NoErr, html |-> html_, err |-> err]

\* response.ok
ResponseOk(status) == status >= 200 /\ status <= 299

\* The body of the try block: the html, or the Error thrown.
FetchTry(net) ==
    IF ~net.proxyUp THEN Delivered(TextBody({}), ErrFetchRejected(net.failMsg))
    ELSE LET response == ProxyFetch(TRUE, net.origin) IN
         IF ~ResponseOk(response.status)
         THEN IF response.status = 403 THEN Delivered(TextBody({}), ErrForbidden)
              ELSE IF response.status = 418 THEN Delivered(TextBody({}), ErrTeapot)
              ELSE Delivered(TextBody({}), ErrStatus(response.status, response.body))
         ELSE Delivered(response.body, NoErr)

\* Mutant of FetchCatch: every Error is thrown again as it is.
FetchCatchRethrow(e) == e

\* catch (e): an Error whose message contains one of the two phrases is
\* replaced by the proxy-not-running Error; any other is thrown again.
FetchCatch(e) ==
    IF PFailedToFetch \in e.has \/ PConnRefused \in e.has
    THEN ErrProxyDown
    ELSE e

fetchViaLocalServer(net) ==
    LET r == FetchTry(net) IN
    IF r.ok THEN r ELSE Delivered(TextBody({}), FetchCatch(r.err))

-----------------------------------------------------------------------------
(* The orchestrator: crawlUserReviews.                                     *)

maxPages == 4
pageSize == 15
delayWithCookie == 1500
delayAnonymous == 3000

\* const categories = ['movie'] as const: the category loop runs once.
cat == "movie"

LogEntry(kind, pg, n, err) == [kind |-> kind, page |-> pg, n |-> n, err |-> err]

\* The three onLog calls before the loop.
StartLog(cookie) ==
    << LogEntry("mode", 0, 0, NoErr),
       LogEntry("ensure node proxy.js", 0, 0, NoErr),
       IF cookie = "" THEN LogEntry("guest", 0, 0, NoErr)
                      ELSE LogEntry("cookie loaded", 0, 0, NoErr) >>

\* const delay = userCookie ? 1500 : 3000
PacingDelay(cookie) == IF cookie # "" THEN delayWithCookie ELSE delayAnonymous

\* Mutant of SoftBlocked: the body is not searched for markers.
SoftBlockedNever(h) == FALSE

\* html.includes(...) || html.includes(...): the anti-crawl check
SoftBlocked(h) == PAbnormal \in h.has \/ PLogin \in h.has

\* Mutant of Accumulate: the page's items replace the aggregate.
AccumulateOverwrite(acc, items) == items

\* allReviews.push(...items)
Accumulate(acc, items) == acc \o items

\* Mutant of AfterError: no break, the loop goes on to the next page.
AfterErrorContinue(pg) == [pc |-> "loop", page |-> pg + 1]

\* catch (err) { onLog(...); break }: where the loop goes after an error
AfterError(pg) == [pc |-> "after", page |-> pg]

\* Mutant of AfterNoItems: no break, the loop goes on to the next page.
AfterNoItemsContinue(pg) == [pc |-> "loop", page |-> pg + 1]

\* if (items.length === 0) { ...; break }: where the loop goes after a page
\* without records
AfterNoItems(pg) == [pc |-> "after", page |-> pg]

\* Mutant of AfterItems: the offset is not advanced.
AfterItemsKeepStart(pg, st) == [pc |-> "loop", page |-> pg + 1, start |-> st]

\* start += 15; and the loop's page++
AfterItems(pg, st) == [pc |-> "loop", page |-> pg + 1, start |-> st + pageSize]

\* if (allReviews.length === 0) throw ...; return allReviews
Thrown(err) == [kind |-> "thrown", value |-> <<>>, err |-> err]
Returned(v) == [kind |-> "returned", value |-> v, err |-> NoErr]
Pending == [kind |-> "pending", value |-> <<>>, err |-> NoErr]

\* Mutant of FinishResult: the aggregate is returned even when empty.
FinishResultNoCheck(acc) == Returned(acc)

FinishResult(acc) == IF Len(acc) = 0 THEN Thrown(ErrEmpty) ELSE Returned(acc)

\* Mutant of LoopContinues: the loop admits one page more.
LoopContinuesOneMore(pg) == pg <= maxPages + 1

\* for (let page = 1; page <= maxPages; page++): the loop test
LoopContinues(pg) == pg <= maxPages

\* Mutant of NeedsPacing: the second page is fetched without a wait.
NeedsPacingFromThird(pg) == pg > 2

\* if (page > 1) await sleep(delay)
NeedsPacing(pg) == pg > 1

\* The onLog calls before the loop.
Begin ==
    /\ pc = "start"
    /\ log' = log \o StartLog(userCookie)
    /\ pc' = "loop"
    /\ UNCHANGED <<userCookie, page, start, allReviews, requested, waits,
                   served, delivered, extracted, result>>
    /\ UNCHANGED extractVars
    /\ UNCHANGED crawls

\* The loop test, the "requesting" log line, and the choice to sleep.
LoopHead ==
    /\ pc = "loop"
    /\ IF LoopContinues(page)
       THEN /\ log' = Append(log, LogEntry("requesting", page, 0, NoErr))
            /\ pc' = IF NeedsPacing(page) THEN "sleep" ELSE "fetch"
       ELSE /\ pc' = "after"
            /\ log' = log
    /\ UNCHANGED <<userCookie, page, start, allReviews, requested, waits,
                   served, delivered, extracted, result>>
    /\ UNCHANGED extractVars
    /\ UNCHANGED crawls

\* await sleep(delay)
Sleep ==
    /\ pc = "sleep"
    /\ waits' = Append(waits, PacingDelay(userCookie))
    /\ pc' = "fetch"
    /\ UNCHANGED <<userCookie, page, start, allReviews, log, requested,
                   served, delivered, extracted, result>>
    /\ UNCHANGED extractVars
    /\ UNCHANGED crawls

\* fetchViaLocalServer(url, userCookie) is called: the request for `start`
\* goes out.
IssueFetch ==
    /\ pc = "fetch"
    /\ requested' = Append(requested, start)
    /\ pc' = "awaiting"
    /\ UNCHANGED <<userCookie, page, start, allReviews, log, waits,
                   served, delivered, extracted, result>>
    /\ UNCHANGED extractVars
    /\ UNCHANGED crawls

\* The rest of the loop body, once fetchViaLocalServer has settled with d.
HandlePage(d) ==
    IF ~d.ok \/ SoftBlocked(d.html)
    THEN LET err == IF ~d.ok THEN d.err ELSE ErrAntiCrawl
             next == AfterError(page) IN
         /\ log' = Append(log, LogEntry("stopped", page, 0, err))
         /\ pc' = next.pc
         /\ page' = next.page
         /\ UNCHANGED <<start, allReviews, extracted>>
    ELSE LET items == parseDoubanPage(d.html, cat) IN
         /\ extracted' = Append(extracted, d.html)
         /\ IF Len(items) = 0
            THEN LET next == AfterNoItems(page) IN
                 /\ log' = IF page = 1
                           THEN Append(log, LogEntry("no data", page, 0, NoErr))
                           ELSE log
                 /\ pc' = next.pc
                 /\ page' = next.page
                 /\ UNCHANGED <<start, allReviews>>
            ELSE LET next == AfterItems(page, start) IN
                 /\ log' = Append(log, LogEntry("captured", page, Len(items), NoErr))
                 /\ allReviews' = Accumulate(allReviews, items)
                 /\ start' = next.start
                 /\ page' = next.page
                 /\ pc' = next.pc

-----------------------------------------------------------------------------
(* Inputs *)

SeqsUpTo(S, n) == UNION {[1..k -> S] : k \in 0..n}

PlainItem(c, ta, ia, es) == Block(c, ta, ia, es, NoEl, NoEl, NoEl, NoEl)

\* The pages the origin serves during a crawl.
BlkA ==
    Block({"item"}, El(<<" ", "a">>), NoEl, <<ClsEl(FALSE, <<TR4t>>)>>,
          El(<<"n">>), NoEl, El(<<"d">>), El(TagLabel \o <<"t", " ", "u">>))
BlkB ==
    Block({"subject-item"}, NoEl, El(<<"b">>), <<>>,
          NoEl, El(<<"m", " ">>), NoEl, NoEl)
BlkUntitled == PlainItem({"item"}, NoEl, NoEl, <<ClsEl(FALSE, <<TR4t>>)>>)

PageEmpty == Html({}, <<>>)
PageUntitled == Html({}, <<BlkUntitled>>)
Page1 == Html({}, <<BlkA>>)
Page2 == Html({}, <<BlkB, BlkUntitled, BlkA>>)
PageAbnormal == Html({PAbnormal}, <<BlkA>>)
PageLoginWall == Html({PLogin}, <<>>)

RedirectTarget == "www.douban.com"

Origins ==
    {OriginResponse(200, b, "") :
        b \in {PageEmpty, PageUntitled, Page1, Page2, PageAbnormal, PageLoginWall}}
    \cup {OriginResponse(301, TextBody({}), RedirectTarget),
          OriginResponse(302, TextBody({}), RedirectTarget),
          OriginResponse(303, PageEmpty, RedirectTarget),
          OriginResponse(307, Page1, RedirectTarget),
          OriginResponse(403, TextBody({}), ""),
          OriginResponse(418, TextBody({}), ""),
          OriginResponse(404, TextBody({}), ""),
          OriginResponse(500, TextBody({PConnRefused}), ""),
          OriginUnreachable}

\* What one fetch() of /fetch can come to.
Networks ==
    {Net(TRUE, {}, o) : o \in Origins}
    \cup {Net(FALSE, m, OriginUnreachable) :
            m \in {{PFailedToFetch}, {PConnRefused}, {}}}

Cookies == {"", "cookie"}

-----------------------------------------------------------------------------
(* The crawl, continued *)

\* fetchViaLocalServer settles and the loop body runs to its end.
CompleteFetch ==
    /\ pc = "awaiting"
    /\ \E net \in Networks :
         LET d == fetchViaLocalServer(net) IN
         /\ served' = Append(served, net)
         /\ delivered' = Append(delivered, d)
         /\ HandlePage(d)
    /\ UNCHANGED <<userCookie, requested, waits, result>>
    /\ UNCHANGED extractVars
    /\ UNCHANGED crawls

\* After the loops: throw on an empty aggregate, else return it.
Finish ==
    /\ pc = "after"
    /\ result' = FinishResult(allReviews)
    /\ pc' = "done"
    /\ UNCHANGED <<userCookie, page, start, allReviews, log, requested, waits,
                   served, delivered, extracted>>
    /\ UNCHANGED extractVars
    /\ UNCHANGED crawls

ExtractIdle ==
    /\ html = PageEmpty
    /\ data = <<>>
    /\ xpc = "idle"

Init ==
    /\ pc = "start"
    /\ userCookie \in Cookies
    /\ page = 1
    /\ start = 0
    /\ allReviews = <<>>
    /\ log = <<>>
    /\ requested = <<>>
    /\ waits = <<>>
    /\ served = <<>>
    /\ delivered = <<>>
    /\ extracted = <<>>
    /\ result = Pending
    /\ ExtractIdle
    /\ crawls = <<>>

Next == Begin \/ LoopHead \/ Sleep \/ IssueFetch \/ CompleteFetch \/ Finish

Spec == Init /\ [][Next]_vars

-----------------------------------------------------------------------------
(* The extractor on its own: parseDoubanPage applied to a page of markup.  *)

Categories == {"movie", "book", "music"}

\* Pages that vary the shape of the blocks and their title elements.
ShapeBlocks ==
    {PlainItem(c, t[1], t[2], es) :
        c \in SUBSET {"item", "subject-item"},
        t \in { <<El(<<"a">>), NoEl>>,
                <<NoEl, El(<<" ", "b", " ">>)>>,
                <<NoEl, NoEl>>,
                <<El(<<" ">>), El(<<"c">>)>>,
                <<El(<<"a">>), El(<<"c">>)>> },
        es \in { <<>>, <<ClsEl(TRUE, <<TR4t>>)>> }}

ShapePages == {Html({}, bs) : bs \in SeqsUpTo(ShapeBlocks, MaxBlocks)}

\* Pages of one item that vary the class lists of its descendants.
ClassLists ==
    { <<TFoo>>, <<TR4t>>, <<TR9t>>, <<TFoo, TR4t>>, <<TR4t, TFoo>>,
      <<TRstar>>, <<TRstar, TR4t>>, <<TR3s>>, <<TXr5t, TR4t>>,
      <<TR9t, TR4t>> }

RatingEls == {ClsEl(s, c) : s \in BOOLEAN, c \in ClassLists}

RatingPages ==
    {Html({}, <<PlainItem({"item"}, El(<<"a">>), NoEl, es)>>) :
        es \in SeqsUpTo(RatingEls, MaxEls)}

\* Pages of one item that vary the text of its tag block.
TagChars == {" ", "t", "TAG:"}

TagTexts ==
    SeqsUpTo(TagChars, MaxTagLen)
        \cup { TagLabel \o <<"t", " ", " ", "u", " ">>,
                <<" ">> \o TagLabel \o TagLabel \o <<"t">> }

TagPages ==
    {Html({}, <<Block({"item"}, El(<<"a">>), NoEl, <<>>, NoEl, NoEl, NoEl, tg)>>) :
        tg \in {NoEl} \cup {El(t) : t \in TagTexts}}

ExtractInputs == ShapePages \cup RatingPages \cup TagPages

CrawlIdle ==
    /\ pc = "idle"
    /\ userCookie = ""
    /\ page = 1
    /\ start = 0
    /\ allReviews = <<>>
    /\ log = <<>>
    /\ requested = <<>>
    /\ waits = <<>>
    /\ served = <<>>
    /\ delivered = <<>>
    /\ extracted = <<>>
    /\ result = Pending

InitExtract ==
    /\ CrawlIdle
    /\ crawls = <<>>
    /\ html \in ExtractInputs
    /\ data = <<>>
    /\ xpc = "input"

\* parseDoubanPage(html, category) is called and returns.
Extract ==
    /\ xpc = "input"
    /\ \E category \in Categories : data' = parseDoubanPage(html, category)
    /\ xpc' = "parsed"
    /\ UNCHANGED html
    /\ UNCHANGED crawlVars
    /\ UNCHANGED crawls

NextExtract == Extract

SpecExtract == InitExtract /\ [][NextExtract]_vars

-----------------------------------------------------------------------------
(* Properties of the crawl (specification Spec)                            *)

\* A body that carries one of the two block-page markers.
MarkerBody(h) == h.has \cap {PAbnormal, PLogin} # {}

\* The k-th fetch ended in a failure outcome.
FailedAt(k) == ~delivered[k].ok \/ MarkerBody(delivered[k].html)

\* The records the k-th fetch contributes: those extracted from its page when
\* it succeeded, none when it failed.
PageRecords(k) ==
    IF FailedAt(k) THEN <<>> ELSE parseDoubanPage(delivered[k].html, cat)

\* The concatenation, in page order, of the records of fetches 1..k.
RECURSIVE AggregateOf(_)
AggregateOf(k) == IF k = 0 THEN <<>> ELSE AggregateOf(k - 1) \o PageRecords(k)

\* The k-th fetch was a Success whose extraction yielded no record.
ZeroSuccessAt(k) == ~FailedAt(k) /\ PageRecords(k) = <<>>

Fetched == 1..Len(delivered)

StoppedWith(k, err) ==
    \E i \in 1..Len(log) :
        log[i].kind = "stopped" /\ log[i].page = k /\ log[i].err = err

\* C1: crawlUserReviews throws the empty-result error if and only if the
\* aggregate is empty when the page loop has ended; otherwise it returns
\* exactly the aggregate, the concatenation in page order of the records
\* extracted from each successful page.
C1_EmptyIffThrown ==
    pc = "done" =>
        /\ allReviews = AggregateOf(Len(delivered))
        /\ (result = Thrown(ErrEmpty)) <=> (allReviews = <<>>)
        /\ allReviews # <<>> => result = Returned(allReviews)
        /\ result.kind \in {"thrown", "returned"}

C1_Witness ==
    /\ pc = "done"
    /\ result.kind = "returned"
    /\ Len(delivered) = 3
    /\ FailedAt(3)
    /\ Len(result.value) = 3

\* The transport fails to connect: fetch() rejects with a message that holds
\* one of the two phrases fetchViaLocalServer looks for.
ConnectionFailure(net) ==
    ~net.proxyUp /\ net.failMsg \cap {PFailedToFetch, PConnRefused} # {}

AlwaysConnectionFailure ==
    /\ pc = "done"
    /\ served # <<>>
    /\ \A k \in 1..Len(served) : ConnectionFailure(served[k])

\* C2 as stated: when every request ends in a connection failure,
\* crawlUserReviews fails with an error whose message references the
\* companion proxy process.
C2_Original ==
    AlwaysConnectionFailure =>
        result.kind = "thrown" /\ PNodeProxy \in result.err.has

\* C2 as amended: when every request ends in a connection failure (fetch
\* rejects with "Failed to fetch" or "Connection refused" in its message),
\* crawlUserReviews fails with the empty-result error, whose message does not
\* reference the companion proxy; the connection-failure diagnosis that does
\* is passed to the log sink with the stop notice of page 1, and page 2 is
\* not requested.
C2_EmptyErrorDiagnosisLogged ==
    AlwaysConnectionFailure =>
        /\ result = Thrown(ErrEmpty)
        /\ PNodeProxy \notin result.err.has
        /\ Len(requested) = 1
        /\ \E i \in 1..Len(log) :
              /\ log[i].kind = "stopped"
              /\ log[i].page = 1
              /\ PNodeProxy \in log[i].err.has

C2_Witness ==
    /\ AlwaysConnectionFailure
    /\ result.kind = "thrown"
    /\ served[1].failMsg = {PFailedToFetch}

\* C3: a Success whose extraction yields no record on page p stops the loop:
\* page p+1 is never requested, the page loop raises no error (nothing is
\* logged as a stop), the aggregate is that of pages 1..p-1, and it is what
\* the call returns (for p = 1 that aggregate is empty, and the call ends
\* with the empty-result error of C1).
C3_ZeroRecordsStops ==
    \A p \in Fetched :
        ZeroSuccessAt(p) =>
            /\ Len(requested) = p
            /\ \A i \in 1..Len(log) : log[i].kind # "stopped"
            /\ allReviews = AggregateOf(p - 1)
            /\ pc \in {"after", "done"}
            /\ pc = "done" =>
                  result = IF p > 1 THEN Returned(AggregateOf(p - 1))
                                    ELSE Thrown(ErrEmpty)

C3_Witness ==
    /\ pc = "done"
    /\ Len(delivered) = 2
    /\ ZeroSuccessAt(2)
    /\ result.kind = "returned"
    /\ result.value = PageRecords(1)

\* C4: a failure outcome on page p > 1 discards nothing: the records of pages
\* 1..p-1 are, unchanged and in order, the value crawlUserReviews returns,
\* and the failure is logged and not thrown to the caller.
C4_FailureKeepsEarlierPages ==
    \A p \in Fetched :
        (p > 1 /\ FailedAt(p)) =>
            /\ allReviews = AggregateOf(p - 1)
            /\ \E i \in 1..Len(log) : log[i].kind = "stopped" /\ log[i].page = p
            /\ result.kind # "thrown"
            /\ pc = "done" => result = Returned(AggregateOf(p - 1))

C4_Witness ==
    /\ pc = "done"
    /\ Len(delivered) = 3
    /\ ~delivered[3].ok
    /\ Len(result.value) >= 3

Failed == \E k \in Fetched : FailedAt(k)

NoOffsetTwice ==
    \A i, j \in 1..Len(requested) : i # j => requested[i] # requested[j]

\* C5: once a page fetch has ended in a failure outcome no further fetch is
\* issued, and no page offset is requested more than once.
C5_StickyNoRetry ==
    /\ [][Failed => requested' = requested]_vars
    /\ []NoOffsetTwice

C5_Witness ==
    /\ pc = "done"
    /\ Len(requested) = 3
    /\ FailedAt(3)

\* The number of fetches among 1..k that were a Success.
RECURSIVE SuccessesUpTo(_)
SuccessesUpTo(k) ==
    IF k = 0 THEN 0
    ELSE SuccessesUpTo(k - 1) + (IF FailedAt(k) THEN 0 ELSE 1)

\* The k-th fetch reached the origin through the proxy and got `status`.
OriginStatusAt(k) ==
    IF served[k].proxyUp /\ served[k].origin.reached
    THEN served[k].origin.status ELSE 0

\* C6: an origin 301 or 302 is delivered to the orchestrator as a Redirected
\* condition: a failure that carries the redirect target and differs from
\* what an origin 403 is delivered as.
C6_RedirectDistinguishable ==
    \A k \in Fetched :
        OriginStatusAt(k) \in {301, 302} =>
            /\ ~delivered[k].ok
            /\ delivered[k].err # ErrForbidden
            /\ served[k].origin.location \in delivered[k].err.has

\* C7: an origin response whose status is not 2xx is never handed to the
\* extractor as a Success page, and, unless the status is 301, 302, 403 or
\* 418, it is delivered as the failure that names its status.
C7_Non2xxNeverSuccess ==
    \A k \in Fetched :
        (OriginStatusAt(k) # 0 /\ OriginStatusAt(k) \notin 200..299) =>
            /\ ~delivered[k].ok
            /\ Len(extracted) = SuccessesUpTo(k - 1)
            /\ OriginStatusAt(k) \notin {301, 302, 403, 418} =>
                  /\ delivered[k].err.kind = "request failed"
                  /\ delivered[k].err.status = OriginStatusAt(k)

\* C8: a 2xx response whose body carries a block-page marker is a Blocked
\* outcome: the extractor is not run on it, none of its records joins the
\* aggregate, and the loop stops at that page.
C8_SoftBlockStops ==
    \A k \in Fetched :
        (delivered[k].ok /\ MarkerBody(delivered[k].html)) =>
            /\ Len(extracted) = SuccessesUpTo(k - 1)
            /\ allReviews = AggregateOf(k - 1)
            /\ StoppedWith(k, ErrAntiCrawl)
            /\ Len(requested) = k
            /\ pc \in {"after", "done"}

C8_Witness ==
    /\ pc = "done"
    /\ Len(delivered) = 2
    /\ delivered[2].ok
    /\ delivered[2].html = PageAbnormal
    /\ parseDoubanPage(PageAbnormal, cat) # <<>>
    /\ result.kind = "returned"

-----------------------------------------------------------------------------
(* Properties of the extractor (specification SpecExtract)                 *)

\* An item block: a block of the grid shape or of the list shape.
ItemShape(b) == "item" \in b.cls \/ "subject-item" \in b.cls

TitledItem(b) == ItemShape(b) /\ ResolveTitle(b) # <<>>

TitledItemExtracted(b) == TitledItem(b) /\ ~RatingThrows(b)

\* data is the records of the blocks bs, one each, in order.
RecordsOf(bs) ==
    /\ Len(data) = Len(bs)
    /\ \A j \in 1..Len(bs) : data[j] = ReviewItem(bs[j], data[j].category)

\* C9 as stated: the records correspond one-to-one, in document order, to the
\* item blocks for which a non-empty title is resolved.
C9_Original ==
    xpc = "parsed" => RecordsOf(SelectSeq(html.blocks, TitledItem))

\* C9 as amended: the records correspond one-to-one, in document order, to
\* the item blocks for which a non-empty title is resolved and whose
\* extraction does not throw; no block yields two records.
C9_OneRecordPerTitledItem ==
    xpc = "parsed" => RecordsOf(SelectSeq(html.blocks, TitledItemExtracted))

C9_Witness ==
    /\ xpc = "parsed"
    /\ Len(html.blocks) = 2
    /\ html.blocks[1].cls = {"subject-item"}
    /\ html.blocks[2].cls = {"item", "subject-item"}
    /\ Len(data) = 2
    /\ data[1].title = <<"b">>
    /\ data[2].title = <<"a">>

\* A class token of the form rating<d>-t..., as the site writes it.
RatingPatternToken(t) ==
    ~t.pre /\ t.stem = "rating" /\ t.digit # NoDigit /\ t.tail = "-t"

ClassDigits(cls) ==
    {cls[j].digit : j \in {x \in 1..Len(cls) : RatingPatternToken(cls[x])}}

\* The digits of the rating tokens anywhere in the item's class lists.
PatternDigits(b) == UNION {ClassDigits(b.els[i].cls) : i \in 1..Len(b.els)}

\* C10: the rating of an item's record is the digit of a class token of the
\* form rating<d>-... whenever the item has such a token, wherever it stands,
\* and is 0 exactly when it has none.
C10_RatingByPattern ==
    (xpc = "parsed" /\ Len(html.blocks) = 1 /\ Len(data) = 1) =>
        LET digits == PatternDigits(html.blocks[1]) IN
        /\ digits # {} => data[1].rating \in digits
        /\ (digits = {}) <=> (data[1].rating = 0)

\* C11: every record the extractor produces has a rating in 0..5, whatever
\* the class tokens of the markup are.
C11_RatingInRange ==
    xpc = "parsed" => \A j \in 1..Len(data) : data[j].rating \in 0..5

RemoveAt(s, i) == SubSeq(s, 1, i - 1) \o SubSeq(s, i + 1, Len(s))

\* An item block whose extraction throws.
FailingItem(b) == ItemShape(b) /\ RatingThrows(b)

\* C13: the extractor never throws (the call always returns), and a failure
\* while extracting one item block leaves the records of the other blocks as
\* they are: the output is the extraction of the page without that block.
C13_ItemFailureIsolated ==
    /\ xpc = "input" => ENABLED Extract
    /\ xpc = "parsed" =>
          \A i \in 1..Len(html.blocks) :
              FailingItem(html.blocks[i]) =>
                  \E c \in Categories :
                      data = parseDoubanPage(
                                 Html(html.has, RemoveAt(html.blocks, i)), c)

C13_Witness ==
    /\ xpc = "parsed"
    /\ Len(html.blocks) = 2
    /\ FailingItem(html.blocks[1])
    /\ ResolveTitle(html.blocks[1]) # <<>>
    /\ Len(data) = 1
    /\ data[1].title = ResolveTitle(html.blocks[2])

\* The text of the first candidate element that is present and whose trimmed
\* text is not empty; the empty text when there is none.
RECURSIVE FirstNonEmpty(_)
FirstNonEmpty(cands) ==
    IF cands = <<>> THEN <<>>
    ELSE IF Head(cands).present /\ Trim(Head(cands).text) # <<>>
         THEN Trim(Head(cands).text)
         ELSE FirstNonEmpty(Tail(cands))

\* C14: title and comment each resolve to the text of the first candidate
\* locator whose element is present and has non-empty trimmed text; a primary
\* element with empty text gives way to the secondary one.
C14_FallbackChain ==
    (/\ xpc = "parsed"
     /\ Len(html.blocks) = 1
     /\ ItemShape(html.blocks[1])
     /\ ~RatingThrows(html.blocks[1])) =>
        LET b == html.blocks[1]
            title == FirstNonEmpty(<<b.titleA, b.infoA>>)
            comment == FirstNonEmpty(<<b.comment, b.shortNote>>) IN
        IF title = <<>> THEN data = <<>>
        ELSE /\ Len(data) = 1
             /\ data[1].title = title
             /\ data[1].comment = comment

-----------------------------------------------------------------------------
(* C12 *)

\* The whitespace-separated words of a text, in order: the first word is
\* what stands between the leading whitespace and the next whitespace.
RECURSIVE WordsOf(_)
WordsOf(t) ==
    LET u == TrimLeft(t) IN
    IF u = <<>> THEN <<>>
    ELSE LET stops == {i \in 1..Len(u) : u[i] = " "}
             n == IF stops = {} THEN Len(u)
                  ELSE (CHOOSE i \in stops : \A j \in stops : i <= j) - 1 IN
         <<SubSeq(u, 1, n)>> \o WordsOf(SubSeq(u, n + 1, Len(u)))

\* The places where the label occurs in a text.
LabelAt(t) ==
    {i \in 1..(Len(t) - Len(TagLabel) + 1) :
        SubSeq(t, i, i + Len(TagLabel) - 1) = TagLabel}

\* The text without its label prefix.
StripLabelPrefix(t) ==
    IF 1 \in LabelAt(t) THEN SubSeq(t, Len(TagLabel) + 1, Len(t)) ELSE t

\* The text without the first occurrence of the label.
StripFirstLabel(t) ==
    IF LabelAt(t) = {} THEN t
    ELSE LET i == CHOOSE k \in LabelAt(t) : \A j \in LabelAt(t) : k <= j IN
         SubSeq(t, 1, i - 1) \o SubSeq(t, i + Len(TagLabel), Len(t))

\* The record of a page of one titled item that has a tag block.
TagCase ==
    /\ xpc = "parsed" /\ Len(html.blocks) = 1 /\ Len(data) = 1
    /\ html.blocks[1].tags.present

NoEmptyTag == \A j \in 1..Len(data) : \A k \in 1..Len(data[j].tags) :
                  data[j].tags[k] # <<>>

\* C12 as stated: the tags are the words of the text after stripping the
\* label prefix and trimming; no tag is empty.
C12_Original ==
    /\ TagCase =>
          data[1].tags = WordsOf(Trim(StripLabelPrefix(html.blocks[1].tags.text)))
    /\ xpc = "parsed" => NoEmptyTag

\* C12: the tags of a record are the whitespace-separated words, in source
\* order, of the tag block's text after removing the first occurrence of
\* the label, wherever it stands, and trimming; no record contains an empty
\* tag, and a block that is empty or whitespace after the removal (or is
\* absent) yields the empty sequence.
C12_TagsAreWords ==
    /\ TagCase =>
          LET rest == Trim(StripFirstLabel(html.blocks[1].tags.text)) IN
          /\ data[1].tags = WordsOf(rest)
          /\ rest = <<>> => data[1].tags = <<>>
    /\ xpc = "parsed" => NoEmptyTag
    /\ (xpc = "parsed" /\ Len(html.blocks) = 1 /\ Len(data) = 1
        /\ ~html.blocks[1].tags.present) => data[1].tags = <<>>

C12_Witness ==
    /\ TagCase
    /\ html.blocks[1].tags.text = TagLabel \o <<"t", " ", " ", "u", " ">>
    /\ data[1].tags = << <<"t">>, <<"u">> >>

-----------------------------------------------------------------------------
(* C15 *)

\* The fetches so far that yielded at least one record.
YieldingFetches == {k \in Fetched : PageRecords(k) # <<>>}

\* The start offset moves only in a step that delivers a page with records.
StartMovesOnlyOnRecords ==
    start' # start =>
        /\ Len(delivered') = Len(delivered) + 1
        /\ delivered'[Len(delivered')].ok
        /\ parseDoubanPage(delivered'[Len(delivered')].html, cat) # <<>>
        /\ ~MarkerBody(delivered'[Len(delivered')].html)
        /\ start' = start + pageSize

\* C15: in every state of a crawl the start offset is pageSize times the
\* number of pages that have yielded a record so far, the fetch for page p
\* requests offset pageSize * (p - 1), and the offset does not move on a
\* page without records or on a failed page.
C15_CursorInvariant ==
    /\ [](start = pageSize * Cardinality(YieldingFetches))
    /\ [](\A p \in 1..Len(requested) : requested[p] = pageSize * (p - 1))
    /\ [](pc = "fetch" => start = pageSize * (page - 1))
    /\ [][StartMovesOnlyOnRecords]_vars

C15_Witness ==
    /\ Len(requested) = 3 /\ requested[3] = 2 * pageSize
    /\ Len(delivered) = 3 /\ ZeroSuccessAt(3) /\ start = 2 * pageSize

-----------------------------------------------------------------------------
(* C16 *)

\* All maxPages pages were fetched and each yielded a record.
AllPagesYielded ==
    /\ Len(delivered) = maxPages
    /\ \A k \in 1..maxPages : PageRecords(k) # <<>>

\* C16: a crawl issues at most maxPages fetches; when all maxPages pages
\* succeed with at least one record each, the loop ends normally after the
\* last one (no stop is logged, no further request goes out) and the records
\* of all maxPages pages are returned.
C16_BoundedPagination ==
    /\ Len(requested) <= maxPages
    /\ AllPagesYielded =>
          /\ pc \in {"loop", "after", "done"}
          /\ page = maxPages + 1
          /\ \A i \in 1..Len(log) : log[i].kind # "stopped"
          /\ allReviews = AggregateOf(maxPages)
    /\ (AllPagesYielded /\ pc = "done") =>
          result = Returned(AggregateOf(maxPages))

C16_Witness ==
    /\ AllPagesYielded /\ pc = "done" /\ Len(requested) = maxPages
    /\ result.kind = "returned" /\ Len(result.value) >= maxPages

-----------------------------------------------------------------------------
(* C17 *)

\* A request goes out in this step.
FetchIssued == Len(requested') = Len(requested) + 1

\* A pacing wait is taken in this step.
WaitTaken == Len(waits') = Len(waits) + 1

\* A fetch goes out only when the function stands at the fetch, every earlier
\* fetch has settled, and one wait was taken for each fetch after the first.
IssueIsPaced ==
    FetchIssued =>
        /\ pc = "fetch"
        /\ Len(delivered) = Len(requested)
        /\ Len(waits) = Len(requested)
        /\ waits' = waits

\* A wait is taken only between a settled fetch and the next one, one at a
\* time, and with the delay of the trust level.
WaitIsBetweenFetches ==
    WaitTaken =>
        /\ pc = "sleep" /\ pc' = "fetch"
        /\ Len(delivered) = Len(requested) /\ Len(requested) >= 1
        /\ Len(waits) = Len(requested) - 1
        /\ requested' = requested
        /\ waits'[Len(waits')] = IF userCookie = "" THEN 3000 ELSE 1500

\* C17: every fetch after the first is preceded, since the previous fetch
\* settled, by exactly one pacing wait; no fetch goes out while a wait or
\* another fetch is pending; no wait precedes page 1; the wait is 3000 ms
\* without an auth token and 1500 ms with one, the former being longer.
C17_Pacing ==
    /\ [][IssueIsPaced /\ WaitIsBetweenFetches
          /\ (FetchIssued \/ WaitTaken
              \/ (requested' = requested /\ waits' = waits))]_vars
    /\ [](Len(requested) >= 1 => Len(waits) \in {Len(requested) - 1, Len(requested)})
    /\ [](Len(requested) = 0 => waits = <<>>)
    /\ [](PacingDelay("") > PacingDelay("cookie"))

C17_Witness ==
    /\ Len(requested) = 3 /\ Len(waits) = 2 /\ pc = "awaiting"
    /\ userCookie = "" /\ waits = <<delayAnonymous, delayAnonymous>>

-----------------------------------------------------------------------------
(* C20 *)

\* The HTTP response the k-th fetch received from the proxy.
ProxyResponseAt(k) == ProxyFetch(TRUE, served[k].origin)

\* The k-th fetch received an HTTP response that is not 2xx.
Non2xxAt(k) == served[k].proxyUp /\ ~ResponseOk(ProxyResponseAt(k).status)

\* The outcome class a non-2xx status stands for.
ClassOfStatus(status) ==
    IF status = 403 THEN "403 Forbidden"
    ELSE IF status = 418 THEN "418 I'm a teapot"
    ELSE "request failed"

\* C20: the outcome of a fetch that received a non-2xx response is the class
\* of its status, whatever the body says, and is never the
\* proxy-not-running diagnosis of a connection failure.
C20_ClassByStatusAlone ==
    \A k \in Fetched :
        Non2xxAt(k) =>
            /\ delivered[k].err.kind = ClassOfStatus(ProxyResponseAt(k).status)
            /\ delivered[k].err # ErrProxyDown

-----------------------------------------------------------------------------
(* crawlUserReviews again, with what the single crawl above leaves out:    *)
(* several invocations in flight, each with its own locals, and an onLog   *)
(* callback that may throw.  crawls[i] holds the locals of invocation i    *)
(* under the names of the variables above; sinkThrows says whether its     *)
(* onLog may throw, transport is what its fetches can meet.                *)

NewCrawl(cookie, sinkThrows, transport) ==
    [pc |-> "start", userCookie |-> cookie, page |-> 1, start |-> 0,
     allReviews |-> <<>>, log |-> <<>>, requested |-> <<>>, waits |-> <<>>,
     served |-> <<>>, delivered |-> <<>>, result |-> Pending,
     sinkThrows |-> sinkThrows, transport |-> transport]

\* The Error a throwing onLog throws.
ErrSink == Err("log sink threw", 0, {})

\* An exception leaves crawlUserReviews: its promise rejects.
Rejected(c, err) == [c EXCEPT !.pc = "done", !.result = Thrown(err)]

\* The onLog calls before the loop, outside any try: the n-th call may throw
\* after the earlier ones were logged.
BeginOutcomes(c) ==
    LET lines == StartLog(c.userCookie) IN
    {[c EXCEPT !.log = @ \o lines, !.pc = "loop"]}
    \cup IF c.sinkThrows
         THEN {Rejected([c EXCEPT !.log = @ \o SubSeq(lines, 1, n - 1)], ErrSink) :
                   n \in 1..Len(lines)}
         ELSE {}

\* catch (err) { onLog(...); break }: the onLog of the catch block is itself
\* outside any try.
CatchOutcomes(c, err) ==
    LET next == AfterError(c.page) IN
    {[c EXCEPT !.log = Append(@, LogEntry("stopped", c.page, 0, err)),
               !.pc = next.pc, !.page = next.page]}
    \cup IF c.sinkThrows THEN {Rejected(c, ErrSink)} ELSE {}

\* An onLog call inside the try block that throws.
ThrowsInTry(c) == IF c.sinkThrows THEN CatchOutcomes(c, ErrSink) ELSE {}

\* The loop test, the "requesting" log line, and the choice to sleep.
LoopHeadOutcomes(c) ==
    IF LoopContinues(c.page)
    THEN {[c EXCEPT !.log = Append(@, LogEntry("requesting", c.page, 0, NoErr)),
                    !.pc = IF NeedsPacing(c.page) THEN "sleep" ELSE "fetch"]}
         \cup ThrowsInTry(c)
    ELSE {[c EXCEPT !.pc = "after"]}

\* await sleep(delay)
SleepOutcome(c) ==
    [c EXCEPT !.waits = Append(@, PacingDelay(c.userCookie)), !.pc = "fetch"]

\* fetchViaLocalServer(url, userCookie) is called.
IssueFetchOutcome(c) ==
    [c EXCEPT !.requested = Append(@, c.start), !.pc = "awaiting"]

\* The rest of the loop body, once fetchViaLocalServer has settled with d;
\* acc is the array `allReviews` names.
HandlePageOutcomes(c, d, acc) ==
    IF ~d.ok \/ SoftBlocked(d.html)
    THEN CatchOutcomes(c, IF ~d.ok THEN d.err ELSE ErrAntiCrawl)
    ELSE LET items == parseDoubanPage(d.html, cat) IN
         IF Len(items) = 0
         THEN LET next == AfterNoItems(c.page)
                  broke == [c EXCEPT !.pc = next.pc, !.page = next.page] IN
              IF c.page = 1
              THEN {[broke EXCEPT
                        !.log = Append(@, LogEntry("no data", c.page, 0, NoErr))]}
                   \cup ThrowsInTry(c)
              ELSE {broke}
         ELSE LET next == AfterItems(c.page, c.start) IN
              {[c EXCEPT
                   !.log = Append(@, LogEntry("captured", c.page, Len(items), NoErr)),
                   !.allReviews = Accumulate(acc, items),
                   !.start = next.start, !.page = next.page, !.pc = next.pc]}
              \cup ThrowsInTry(c)

\* Mutant of AccumulatorOf: one array at module level, shared by every
\* invocation.
AccumulatorShared(cs, i) == cs[1].allReviews

\* const allReviews: ReviewItem[] = [] is a local of the invocation.
AccumulatorOf(cs, i) == cs[i].allReviews

\* Invocation i takes a step to c2; nothing else changes.
StepTo(i, c2) ==
    /\ crawls' = [crawls EXCEPT ![i] = c2]
    /\ UNCHANGED crawlVars
    /\ UNCHANGED extractVars

BeginOf(i) ==
    /\ crawls[i].pc = "start"
    /\ \E c2 \in BeginOutcomes(crawls[i]) : StepTo(i, c2)

LoopHeadOf(i) ==
    /\ crawls[i].pc = "loop"
    /\ \E c2 \in LoopHeadOutcomes(crawls[i]) : StepTo(i, c2)

SleepOf(i) ==
    /\ crawls[i].pc = "sleep"
    /\ StepTo(i, SleepOutcome(crawls[i]))

IssueFetchOf(i) ==
    /\ crawls[i].pc = "fetch"
    /\ StepTo(i, IssueFetchOutcome(crawls[i]))

CompleteFetchOf(i) ==
    /\ crawls[i].pc = "awaiting"
    /\ \E net \in crawls[i].transport :
         LET d == fetchViaLocalServer(net)
             c1 == [crawls[i] EXCEPT !.served = Append(@, net),
                                     !.delivered = Append(@, d)] IN
         \E c2 \in HandlePageOutcomes(c1, d, AccumulatorOf(crawls, i)) :
             StepTo(i, c2)

FinishOf(i) ==
    /\ crawls[i].pc = "after"
    /\ StepTo(i, [crawls[i] EXCEPT !.result = FinishResult(crawls[i].allReviews),
                                   !.pc = "done"])

\* One invocation whose onLog may throw at any call.
InitSink ==
    /\ CrawlIdle
    /\ ExtractIdle
    /\ crawls \in {<<NewCrawl(cookie, TRUE, Networks)>> : cookie \in Cookies}

NextSink ==
    \/ BeginOf(1)
    \/ LoopHeadOf(1)
    \/ SleepOf(1)
    \/ IssueFetchOf(1)
    \/ CompleteFetchOf(1)
    \/ FinishOf(1)

SpecSink == InitSink /\ [][NextSink]_vars

\* Two invocations in flight at once, with well-behaved onLog callbacks.
\* The first is anonymous and is served pages of BlkA, the second carries a
\* cookie and is served pages of BlkB.
PageB == Html({}, <<BlkB>>)

TransportOf(pg) ==
    {Net(TRUE, {}, OriginResponse(200, pg, "")),
     Net(TRUE, {}, OriginResponse(200, PageEmpty, "")),
     Net(TRUE, {}, OriginResponse(403, TextBody({}), "")),
     Net(FALSE, {PFailedToFetch}, OriginUnreachable)}

Invocations == {1, 2}

InitTwo ==
    /\ CrawlIdle
    /\ ExtractIdle
    /\ crawls = <<NewCrawl("", FALSE, TransportOf(Page1)),
                  NewCrawl("cookie", FALSE, TransportOf(PageB))>>

NextTwo ==
    \E i \in Invocations :
        \/ BeginOf(i)
        \/ LoopHeadOf(i)
        \/ SleepOf(i)
        \/ IssueFetchOf(i)
        \/ CompleteFetchOf(i)
        \/ FinishOf(i)

SpecTwo == InitTwo /\ [][NextTwo]_vars

\* The two descriptions of crawlUserReviews agree: with an onLog that never
\* throws, every step of the single crawl is a step of an invocation.
AsCrawl ==
    [pc |-> pc, userCookie |-> userCookie, page |-> page, start |-> start,
     allReviews |-> allReviews, log |-> log, requested |-> requested,
     waits |-> waits, served |-> served, delivered |-> delivered,
     result |-> result, sinkThrows |-> FALSE, transport |-> Networks]

StepsOf(c) ==
    IF c.pc = "start" THEN BeginOutcomes(c)
    ELSE IF c.pc = "loop" THEN LoopHeadOutcomes(c)
    ELSE IF c.pc = "sleep" THEN {SleepOutcome(c)}
    ELSE IF c.pc = "fetch" THEN {IssueFetchOutcome(c)}
    ELSE IF c.pc = "awaiting"
    THEN UNION {LET d == fetchViaLocalServer(net) IN
                HandlePageOutcomes([c EXCEPT !.served = Append(@, net),
                                             !.delivered = Append(@, d)],
                                   d, c.allReviews) : net \in c.transport}
    ELSE IF c.pc = "after"
    THEN {[c EXCEPT !.result = FinishResult(c.allReviews), !.pc = "done"]}
    ELSE {}

SingleCrawlIsAnInvocation == [][AsCrawl' \in StepsOf(AsCrawl)]_vars

-----------------------------------------------------------------------------
(* C18 *)

\* The records a delivery contributes to an invocation with a well-behaved
\* onLog: those of its page when it is a success, none when it failed.
DeliveryRecords(d) ==
    IF ~d.ok \/ MarkerBody(d.html) THEN <<>> ELSE parseDoubanPage(d.html, cat)

\* The concatenation, in page order, of the records of deliveries ds.
RECURSIVE DeliveredAggregate(_)
DeliveredAggregate(ds) ==
    IF ds = <<>> THEN <<>>
    ELSE DeliveredAggregate(SubSeq(ds, 1, Len(ds) - 1))
             \o DeliveryRecords(ds[Len(ds)])

\* The invocation fetched the pages a crawl with a well-behaved onLog
\* fetches against the same responses: every request was answered, and the
\* crawl went on until the page limit or a page without records.
FetchedAsUninterrupted(c) ==
    /\ Len(c.requested) = Len(c.delivered)
    /\ \/ Len(c.delivered) = maxPages
       \/ /\ Len(c.delivered) >= 1
          /\ DeliveryRecords(c.delivered[Len(c.delivered)]) = <<>>

\* C18: an exception thrown by onLog at any of its calls never interrupts
\* the crawl: the pages fetched and the result are those of a crawl whose
\* onLog never throws, and the records accumulated so far are not lost.
C18_SinkThrowNeverInterrupts ==
    \A i \in DOMAIN crawls :
        LET c == crawls[i] IN
        c.pc = "done" =>
            /\ FetchedAsUninterrupted(c)
            /\ c.result = FinishResult(DeliveredAggregate(c.delivered))
            /\ c.allReviews # <<>> => c.result = Returned(c.allReviews)

-----------------------------------------------------------------------------
(* C19 *)

\* The deliveries of an invocation that yielded at least one record.
YieldingDeliveries(c) ==
    {k \in 1..Len(c.delivered) : DeliveryRecords(c.delivered[k]) # <<>>}

\* The fetch sequence, cursor, accumulator and result of invocation c are
\* those of a crawl that runs alone against the responses c received.
AsIfAlone(c) ==
    /\ Len(c.requested) \in {Len(c.delivered), Len(c.delivered) + 1}
    /\ \A p \in 1..Len(c.requested) : c.requested[p] = pageSize * (p - 1)
    /\ c.start = pageSize * Cardinality(YieldingDeliveries(c))
    /\ c.allReviews = DeliveredAggregate(c.delivered)
    /\ \A k \in 1..Len(c.waits) : c.waits[k] = PacingDelay(c.userCookie)
    /\ c.pc = "done" =>
          /\ FetchedAsUninterrupted(c)
          /\ c.result = FinishResult(DeliveredAggregate(c.delivered))
    /\ c.pc # "done" => c.result = Pending

Range(s) == {s[k] : k \in 1..Len(s)}

\* The records extracted from the pages served to an invocation.
ServedRecords(c) ==
    UNION {Range(DeliveryRecords(c.delivered[k])) : k \in 1..Len(c.delivered)}

\* C19: when two invocations interleave at their suspension points, the
\* fetch sequence, cursor and returned aggregate of each are what they would
\* be had it run alone against the same responses, and no record of one
\* appears in the accumulator or the result of the other.
C19_InvocationIsolation ==
    \A i \in DOMAIN crawls :
        /\ AsIfAlone(crawls[i])
        /\ \A j \in DOMAIN crawls \ {i} :
              /\ Range(crawls[i].allReviews) \cap ServedRecords(crawls[j]) = {}
              /\ Range(crawls[i].result.value) \cap ServedRecords(crawls[j]) = {}

C19_Witness ==
    /\ DOMAIN crawls = Invocations
    /\ crawls[1].pc = "awaiting" /\ Len(crawls[1].allReviews) = 1
    /\ crawls[2].pc = "sleep" /\ Len(crawls[2].allReviews) = 2
    /\ ServedRecords(crawls[1]) # {} /\ ServedRecords(crawls[2]) # {}

====
